---- MODULE Spec2Model ----
(***************************************************************************)
(* Process-graph model and validation engine of processbuilder.            *)
(*                                                                         *)
(* ProcessBuilder (builder.py) owns the step and note collections;         *)
(* validate_process_flow / validate_notes (utils/__init__.py) are pure     *)
(* functions over them.  Python strings are modelled as sequences of       *)
(* one-character strings so that str.lower() and str.strip() are computed, *)
(* not assumed.  An issue message is the record of the holes of the        *)
(* f-string that builds it: msg is the literal text, path_name / path /    *)
(* names / subject are the interpolated values.                            *)
(***************************************************************************)
EXTENDS Integers, Sequences, FiniteSets, TLC

VARIABLES steps, notes, step_count, call, ret, hung, state_file, openai_client

vars == <<steps, notes, step_count, call, ret, hung, state_file, openai_client>>

(***************************************************************************)
(* Bounds of the model.                                                    *)
(***************************************************************************)
MaxSteps == 2
MaxNotes == 2
MaxFlowSteps == 2
MaxLoaded == 2
MaxExisting == 3
MaxNoteList == 3
MaxCalls == 2
MaxRows == 2

(***************************************************************************)
(* Strings.                                                                *)
(***************************************************************************)
Collect == <<"C", "o", "l", "l", "e", "c", "t">>
Review == <<"R", "e", "v", "i", "e", "w">>
Ghost == <<"G", "h", "o", "s", "t">>
end == <<"e", "n", "d">>
End == <<"E", "n", "d">>
END == <<"E", "N", "D">>
Empty == <<>>
Blank == <<" ">>
Text == <<"o", "k">>
Note1 == <<"N", "o", "t", "e", "1">>
Note2 == <<"N", "o", "t", "e", "2">>

None == <<"None">>

LowerChar(c) ==
    CASE c = "C" -> "c"
      [] c = "D" -> "d"
      [] c = "E" -> "e"
      [] c = "G" -> "g"
      [] c = "N" -> "n"
      [] c = "R" -> "r"
      [] OTHER -> c

Lower(s) == [i \in 1..Len(s) |-> LowerChar(s[i])]

IsSpace(c) == c \in {" ", "\t", "\n"}

RECURSIVE LStrip(_)
LStrip(s) ==
    IF s = <<>> THEN <<>>
    ELSE IF IsSpace(Head(s)) THEN LStrip(Tail(s)) ELSE s

RECURSIVE RStrip(_)
RStrip(s) ==
    IF s = <<>> THEN <<>>
    ELSE IF IsSpace(s[Len(s)]) THEN RStrip(SubSeq(s, 1, Len(s) - 1)) ELSE s

Strip(s) == RStrip(LStrip(s))

(***************************************************************************)
(* create_step_id.  int() is modelled on strings of digits with an         *)
(* optional sign and surrounding whitespace; every other string raises     *)
(* ValueError.  The f-string prints a number in decimal.                   *)
(***************************************************************************)
Checkout == <<"C", "h", "e", "c", "k", "o", "u", "t">>
Underscore == <<"_">>

DigitChars == <<"0", "1", "2", "3", "4", "5", "6", "7", "8", "9">>

IsDigit(c) == \E k \in 1..10 : DigitChars[k] = c

DigitValue(c) == (CHOOSE k \in 1..10 : DigitChars[k] = c) - 1

\* the digits of int(s) once whitespace and sign are taken off
int_digits(s) ==
    LET t == Strip(s) IN
    IF t # <<>> /\ t[1] \in {"+", "-"} THEN Tail(t) ELSE t

int_raises(s) ==
    int_digits(s) = <<>> \/ \E i \in 1..Len(int_digits(s)) : ~IsDigit(int_digits(s)[i])

RECURSIVE digits_value(_)
digits_value(d) ==
    IF d = <<>> THEN 0
    ELSE 10 * digits_value(SubSeq(d, 1, Len(d) - 1)) + DigitValue(d[Len(d)])

int_value(s) ==
    IF Strip(s)[1] = "-" THEN 0 - digits_value(int_digits(s)) ELSE digits_value(int_digits(s))

RECURSIVE str_of_int(_)
str_of_int(n) ==
    IF n < 0 THEN <<"-">> \o str_of_int(0 - n)
    ELSE IF n < 10 THEN <<DigitChars[n + 1]>>
    ELSE str_of_int(n \div 10) \o <<DigitChars[(n % 10) + 1]>>

startswith(s, prefix) == Len(prefix) <= Len(s) /\ SubSeq(s, 1, Len(prefix)) = prefix

max(a, b) == IF b > a THEN b ELSE a

\* for step in self.steps: ... (the loop that computes highest_suffix)
RECURSIVE highest_suffix(_, _, _, _)
highest_suffix(ss, base_id, i, highest) ==
    IF i > Len(ss) THEN highest
    ELSE IF ss[i].step_id = base_id
    THEN highest_suffix(ss, base_id, i + 1, 1)
    ELSE IF startswith(ss[i].step_id, base_id \o Underscore)
    THEN LET suffix == SubSeq(ss[i].step_id, Len(base_id) + 2, Len(ss[i].step_id)) IN
         IF int_raises(suffix)
         THEN highest_suffix(ss, base_id, i + 1, highest)
         ELSE highest_suffix(ss, base_id, i + 1, max(highest, int_value(suffix)))
    ELSE highest_suffix(ss, base_id, i + 1, highest)

create_step_id(ss, title) ==
    IF \E i \in 1..Len(ss) : ss[i].step_id = title
    THEN title \o Underscore \o str_of_int(highest_suffix(ss, title, 1, 0) + 1)
    ELSE title

(***************************************************************************)
(* ProcessStep.to_dict / ProcessStep.from_dict.  A step here carries all   *)
(* thirteen fields of the dataclass.  A datetime is the record of its      *)
(* components; isoformat() prints it as YYYY-MM-DDTHH:MM:SS with .ffffff   *)
(* appended when the microsecond is not 0, and fromisoformat() reads the   *)
(* components back from their positions.  None in the created_at field is  *)
(* NoneDatetime (None elsewhere is the string-typed None).                 *)
(***************************************************************************)
datetime(y, mo, d, h, mi, sec, us) ==
    [year |-> y, month |-> mo, day |-> d, hour |-> h, minute |-> mi,
     second |-> sec, microsecond |-> us]

NoneDatetime == [none |-> TRUE]

\* created_at: datetime = datetime.now() is evaluated once, when the class is
\* defined: every instance built without created_at carries this one value.
DefaultCreatedAt == datetime(2024, 1, 9, 0, 5, 59, 123456)

RECURSIVE zero_padded(_, _)
zero_padded(n, width) ==
    IF width = 0 THEN <<>>
    ELSE zero_padded(n \div 10, width - 1) \o <<DigitChars[(n % 10) + 1]>>

\* mutant of isoformat: the microsecond is never printed
isoformat_seconds_only(dt) ==
    zero_padded(dt.year, 4) \o <<"-">> \o zero_padded(dt.month, 2) \o <<"-">>
    \o zero_padded(dt.day, 2) \o <<"T">> \o zero_padded(dt.hour, 2) \o <<":">>
    \o zero_padded(dt.minute, 2) \o <<":">> \o zero_padded(dt.second, 2)

isoformat(dt) ==
    zero_padded(dt.year, 4) \o <<"-">> \o zero_padded(dt.month, 2) \o <<"-">>
    \o zero_padded(dt.day, 2) \o <<"T">> \o zero_padded(dt.hour, 2) \o <<":">>
    \o zero_padded(dt.minute, 2) \o <<":">> \o zero_padded(dt.second, 2)
    \o (IF dt.microsecond # 0 THEN <<".">> \o zero_padded(dt.microsecond, 6) ELSE <<>>)

fromisoformat(str) ==
    datetime(digits_value(SubSeq(str, 1, 4)), digits_value(SubSeq(str, 6, 7)),
             digits_value(SubSeq(str, 9, 10)), digits_value(SubSeq(str, 12, 13)),
             digits_value(SubSeq(str, 15, 16)), digits_value(SubSeq(str, 18, 19)),
             IF Len(str) > 19 THEN digits_value(SubSeq(str, 21, 26)) ELSE 0)

to_dict(step) ==
    [step_id |-> step.step_id,
     description |-> step.description,
     decision |-> step.decision,
     success_outcome |-> step.success_outcome,
     failure_outcome |-> step.failure_outcome,
     note_id |-> step.note_id,
     next_step_success |-> step.next_step_success,
     next_step_failure |-> step.next_step_failure,
     validation_rules |-> step.validation_rules,
     error_codes |-> step.error_codes,
     retry_logic |-> step.retry_logic,
     design_feedback |-> step.design_feedback,
     created_at |-> IF step.created_at # NoneDatetime
                    THEN isoformat(step.created_at) ELSE None]

\* if "created_at" in data and data["created_at"]: parse it; return cls(**data)
from_dict(data) ==
    [data EXCEPT !.created_at =
        IF @ # None /\ @ # <<>> THEN fromisoformat(@) ELSE NoneDatetime]

(***************************************************************************)
(* Issue messages.                                                         *)
(***************************************************************************)
Issue(m, pn, p, ns, subj) ==
    [msg |-> m, path_name |-> pn, path |-> p, names |-> ns, subject |-> subj]

PlainIssue(m) == Issue(m, "", <<>>, {}, <<>>)

(***************************************************************************)
(* ProcessStep / ProcessNote records.                                      *)
(***************************************************************************)
ProcessStep(id, desc, dec, so, fo, nid, nss, nsf) ==
    [step_id |-> id, description |-> desc, decision |-> dec,
     success_outcome |-> so, failure_outcome |-> fo, note_id |-> nid,
     next_step_success |-> nss, next_step_failure |-> nsf,
     validation_rules |-> None, error_codes |-> None, retry_logic |-> None,
     design_feedback |-> None, created_at |-> DefaultCreatedAt]

ProcessNote(nid, c, rel) ==
    [note_id |-> nid, content |-> c, related_step_id |-> rel,
     created_at |-> DefaultCreatedAt]

Range(seq) == {seq[i] : i \in 1..Len(seq)}

StepIdsOf(ss) == {ss[i].step_id : i \in 1..Len(ss)}

(***************************************************************************)
(* validate_process_flow                                                   *)
(***************************************************************************)
\* mutants of has_end: a case-sensitive comparison; the truthiness slip
\* `a.lower() == 'end' or b`
has_end_case_sensitive(ss) ==
    \E i \in 1..Len(ss) :
        ss[i].next_step_success = end \/ ss[i].next_step_failure = end

has_end_truthy_failure(ss) ==
    \E i \in 1..Len(ss) :
        Lower(ss[i].next_step_success) = end \/ ss[i].next_step_failure # <<>>

has_end(ss) ==
    \E i \in 1..Len(ss) :
        Lower(ss[i].next_step_success) = end \/ Lower(ss[i].next_step_failure) = end

\* next((s for s in steps if s.step_id == current), None): index of the
\* first step with that id, 0 for None.
FirstIndexOf(ss, id) ==
    IF \E i \in 1..Len(ss) : ss[i].step_id = id
    THEN CHOOSE i \in 1..Len(ss) :
            /\ ss[i].step_id = id
            /\ \A j \in 1..(i - 1) : ss[j].step_id # id
    ELSE 0

\* mutant of NextOf: both walks follow the success edge
NextOf_always_success(step, path_name) == step.next_step_success

NextOf(step, path_name) ==
    IF path_name = "success" THEN step.next_step_success ELSE step.next_step_failure

\* mutant of check_path_loop: an id that names no step ends the walk silently
RECURSIVE check_path_loop_skips_missing(_, _, _, _, _)
check_path_loop_skips_missing(ss, path_name, current, visited, path) ==
    IF Lower(current) = end THEN <<>>
    ELSE LET path2 == Append(path, current) IN
         IF current \in visited
         THEN <<Issue("Circular reference detected in {path_name} path: {path}",
                      path_name, path2, {}, <<>>)>>
         ELSE LET k == FirstIndexOf(ss, current) IN
              IF k = 0 THEN <<>>
              ELSE check_path_loop_skips_missing(ss, path_name, NextOf(ss[k], path_name),
                                                 visited \cup {current}, path2)

\* mutant of check_path_loop: the walk stops only at the lower-case 'end'
RECURSIVE check_path_loop_case_sensitive(_, _, _, _, _)
check_path_loop_case_sensitive(ss, path_name, current, visited, path) ==
    IF current = end THEN <<>>
    ELSE LET path2 == Append(path, current) IN
         IF current \in visited
         THEN <<Issue("Circular reference detected in {path_name} path: {path}",
                      path_name, path2, {}, <<>>)>>
         ELSE LET k == FirstIndexOf(ss, current) IN
              IF k = 0
              THEN <<Issue("Step name '{current}' referenced in {path_name} path not found",
                           path_name, <<>>, {}, current)>>
              ELSE check_path_loop_case_sensitive(ss, path_name, NextOf(ss[k], path_name),
                                                  visited \cup {current}, path2)

\* mutant of check_path_loop: the id joins the path after the visited check
RECURSIVE check_path_loop_appends_after_check(_, _, _, _, _)
check_path_loop_appends_after_check(ss, path_name, current, visited, path) ==
    IF Lower(current) = end THEN <<>>
    ELSE IF current \in visited
         THEN <<Issue("Circular reference detected in {path_name} path: {path}",
                      path_name, path, {}, <<>>)>>
         ELSE LET k == FirstIndexOf(ss, current) IN
              IF k = 0
              THEN <<Issue("Step name '{current}' referenced in {path_name} path not found",
                           path_name, <<>>, {}, current)>>
              ELSE check_path_loop_appends_after_check(ss, path_name, NextOf(ss[k], path_name),
                                                       visited \cup {current},
                                                       Append(path, current))

RECURSIVE check_path_loop(_, _, _, _, _)
check_path_loop(ss, path_name, current, visited, path) ==
    IF Lower(current) = end THEN <<>>
    ELSE LET path2 == Append(path, current) IN
         IF current \in visited
         THEN <<Issue("Circular reference detected in {path_name} path: {path}",
                      path_name, path2, {}, <<>>)>>
         ELSE LET k == FirstIndexOf(ss, current) IN
              IF k = 0
              THEN <<Issue("Step name '{current}' referenced in {path_name} path not found",
                           path_name, <<>>, {}, current)>>
              ELSE check_path_loop(ss, path_name, NextOf(ss[k], path_name),
                                   visited \cup {current}, path2)

check_path(ss, start_id, path_name) ==
    check_path_loop(ss, path_name, start_id, {}, <<>>)

\* mutant of referenced_steps: only the success edges count as references
referenced_steps_success_only(ss) ==
    {ss[i].next_step_success : i \in {j \in 1..Len(ss) : Lower(ss[j].next_step_success) # end}}

referenced_steps(ss) ==
    {ss[i].next_step_success : i \in {j \in 1..Len(ss) : Lower(ss[j].next_step_success) # end}}
    \cup
    {ss[i].next_step_failure : i \in {j \in 1..Len(ss) : Lower(ss[j].next_step_failure) # end}}

\* mutant of disconnected: the last step is exempted instead of the first
disconnected_exempts_last(ss) ==
    (StepIdsOf(ss) \ referenced_steps(ss)) \ {ss[Len(ss)].step_id}

disconnected(ss) ==
    (StepIdsOf(ss) \ referenced_steps(ss)) \ {ss[1].step_id}

\* mutant of validate_process_flow: no early return on the empty collection
validate_process_flow_without_early_return(ss) ==
    (IF ss = <<>> THEN <<PlainIssue("Process must have at least one step")>> ELSE <<>>)
    \o (IF has_end(ss) THEN <<>>
        ELSE <<PlainIssue("Process must have at least one path that leads to 'End'")>>)
    \o (IF ss = <<>> THEN <<>>
        ELSE check_path(ss, ss[1].step_id, "success")
             \o check_path(ss, ss[1].step_id, "failure")
             \o (IF disconnected(ss) # {}
                 THEN <<Issue("Disconnected step names found: {names}", "", <<>>,
                              disconnected(ss), <<>>)>>
                 ELSE <<>>))

validate_process_flow(ss) ==
    IF ss = <<>>
    THEN <<PlainIssue("Process must have at least one step")>>
    ELSE (IF has_end(ss) THEN <<>>
          ELSE <<PlainIssue("Process must have at least one path that leads to 'End'")>>)
         \o check_path(ss, ss[1].step_id, "success")
         \o check_path(ss, ss[1].step_id, "failure")
         \o (IF disconnected(ss) # {}
             THEN <<Issue("Disconnected step names found: {names}", "", <<>>,
                          disconnected(ss), <<>>)>>
             ELSE <<>>)

(***************************************************************************)
(* validate_notes                                                          *)
(***************************************************************************)
note_ids(ns) == [i \in 1..Len(ns) |-> ns[i].note_id]

RECURSIVE orphaned_notes(_, _)
orphaned_notes(ns, ss) ==
    IF ns = <<>> THEN <<>>
    ELSE (IF Head(ns).related_step_id \notin StepIdsOf(ss)
          THEN <<Issue("Note {note_id} references non-existent step name '{related_step_id}'",
                       "", <<>>, {Head(ns).note_id}, Head(ns).related_step_id)>>
          ELSE <<>>)
         \o orphaned_notes(Tail(ns), ss)

\* mutant of validate_notes: one duplicate issue per repeated note id
validate_notes_issue_per_duplicate(ns, ss) ==
    [i \in 1..(Len(note_ids(ns)) - Cardinality(Range(note_ids(ns)))) |->
        PlainIssue("Duplicate note IDs found")]
    \o orphaned_notes(ns, ss)

validate_notes(ns, ss) ==
    (IF Len(note_ids(ns)) # Cardinality(Range(note_ids(ns)))
     THEN <<PlainIssue("Duplicate note IDs found")>>
     ELSE <<>>)
    \o orphaned_notes(ns, ss)

(***************************************************************************)
(* ProcessStep.validate, ProcessNote.validate                              *)
(***************************************************************************)
IssueIf(cond, m) == IF cond THEN <<PlainIssue(m)>> ELSE <<>>

\* mutant of step_validate: failure_outcome is not checked
step_validate_without_failure_outcome(step) ==
    IssueIf(Strip(step.step_id) = <<>>, "Step ID cannot be empty")
    \o IssueIf(Strip(step.description) = <<>>, "Description cannot be empty")
    \o IssueIf(Strip(step.decision) = <<>>, "Decision cannot be empty")
    \o IssueIf(Strip(step.success_outcome) = <<>>, "Success outcome cannot be empty")

step_validate(step) ==
    IssueIf(Strip(step.step_id) = <<>>, "Step ID cannot be empty")
    \o IssueIf(Strip(step.description) = <<>>, "Description cannot be empty")
    \o IssueIf(Strip(step.decision) = <<>>, "Decision cannot be empty")
    \o IssueIf(Strip(step.success_outcome) = <<>>, "Success outcome cannot be empty")
    \o IssueIf(Strip(step.failure_outcome) = <<>>, "Failure outcome cannot be empty")

note_validate(note) ==
    IssueIf(Strip(note.note_id) = <<>>, "Note ID cannot be empty")
    \o IssueIf(Strip(note.content) = <<>>, "Content cannot be empty")
    \o IssueIf(Strip(note.related_step_id) = <<>>, "Related step ID cannot be empty")

(***************************************************************************)
(* ProcessBuilder: validate_next_step, find_missing_steps, add_step,       *)
(* add_note.  A builder value b is [steps, notes, step_count, hung]; hung  *)
(* records that the call never returns.                                    *)
(***************************************************************************)
\* ProcessNote.to_dict / ProcessNote.from_dict
note_to_dict(note) ==
    [note_id |-> note.note_id,
     content |-> note.content,
     related_step_id |-> note.related_step_id,
     created_at |-> IF note.created_at # NoneDatetime
                    THEN isoformat(note.created_at) ELSE None]

note_from_dict(data) ==
    [data EXCEPT !.created_at =
        IF @ # None /\ @ # <<>> THEN fromisoformat(@) ELSE NoneDatetime]

\* The state file .processbuilder/<process_name>.json: absent, or the JSON
\* document that save_state wrote (json.dump and json.load keep its strings,
\* numbers and nulls as they are).
NoFile == [exists |-> FALSE]

\* mutant of save_state: the file is written from the list without its last step
save_state_without_last_step(b) ==
    [exists |-> TRUE,
     step_count |-> b.step_count,
     steps |-> [i \in 1..(Len(b.steps) - 1) |-> to_dict(b.steps[i])],
     notes |-> [i \in 1..Len(b.notes) |-> note_to_dict(b.notes[i])]]

save_state(b) ==
    [exists |-> TRUE,
     step_count |-> b.step_count,
     steps |-> [i \in 1..Len(b.steps) |-> to_dict(b.steps[i])],
     notes |-> [i \in 1..Len(b.notes) |-> note_to_dict(b.notes[i])]]

\* ProcessBuilder.__init__: empty collections, then load_state if the file exists
ProcessBuilder_init(file) ==
    IF ~file.exists
    THEN [steps |-> <<>>, notes |-> <<>>, step_count |-> 0, hung |-> FALSE,
          state_file |-> file]
    ELSE [steps |-> [i \in 1..Len(file.steps) |-> from_dict(file.steps[i])],
          notes |-> [i \in 1..Len(file.notes) |-> note_from_dict(file.notes[i])],
          step_count |-> file.step_count,
          hung |-> FALSE,
          state_file |-> file]

\* mutant of validate_next_step_id: an id that names no step is accepted too
validate_next_step_id_without_lookup(ss, next_step_id) ==
    IF Lower(next_step_id) = end THEN TRUE
    ELSE TRUE

validate_next_step_id(ss, next_step_id) ==
    IF Lower(next_step_id) = end THEN TRUE
    ELSE IF \E i \in 1..Len(ss) : ss[i].step_id = next_step_id THEN TRUE
    ELSE FALSE

validate_next_step(ss, step) ==
    (IF ~validate_next_step_id(ss, step.next_step_success)
     THEN <<Issue("Next step on success path '{next_step_success}' does not exist",
                  "success", <<>>, {}, step.next_step_success)>>
     ELSE <<>>)
    \o
    (IF ~validate_next_step_id(ss, step.next_step_failure)
     THEN <<Issue("Next step on failure path '{next_step_failure}' does not exist",
                  "failure", <<>>, {}, step.next_step_failure)>>
     ELSE <<>>)

\* mutant of find_missing_from: the failure field is reported before the success field
RECURSIVE find_missing_from_failure_first(_, _)
find_missing_from_failure_first(ss, i) ==
    IF i > Len(ss) THEN <<>>
    ELSE (IF Lower(ss[i].next_step_failure) # end
             /\ ss[i].next_step_failure \notin StepIdsOf(ss)
          THEN <<<<ss[i].next_step_failure, ss[i].step_id, "failure">>>>
          ELSE <<>>)
         \o
         (IF Lower(ss[i].next_step_success) # end
             /\ ss[i].next_step_success \notin StepIdsOf(ss)
          THEN <<<<ss[i].next_step_success, ss[i].step_id, "success">>>>
          ELSE <<>>)
         \o find_missing_from_failure_first(ss, i + 1)

RECURSIVE find_missing_from(_, _)
find_missing_from(ss, i) ==
    IF i > Len(ss) THEN <<>>
    ELSE (IF Lower(ss[i].next_step_success) # end
             /\ ss[i].next_step_success \notin StepIdsOf(ss)
          THEN <<<<ss[i].next_step_success, ss[i].step_id, "success">>>>
          ELSE <<>>)
         \o
         (IF Lower(ss[i].next_step_failure) # end
             /\ ss[i].next_step_failure \notin StepIdsOf(ss)
          THEN <<<<ss[i].next_step_failure, ss[i].step_id, "failure">>>>
          ELSE <<>>)
         \o find_missing_from(ss, i + 1)

find_missing_steps(ss) == find_missing_from(ss, 1)

create_missing_step_noninteractive(step_id) ==
    ProcessStep(step_id,
                <<"Automatically generated step for:", " ">> \o step_id,
                <<"Does the", " ">> \o step_id \o <<" ", "step complete successfully?">>,
                <<"The step completed successfully.">>,
                <<"The step failed to complete.">>,
                None, End, End)

RECURSIVE add_step(_, _)
RECURSIVE missing_steps_loop(_)
RECURSIVE missing_steps_pass(_, _)

\* for missing_step_id, predecessor_id, path_type in missing_steps: ...
missing_steps_pass(b, missing) ==
    IF missing = <<>> \/ b.hung THEN b
    ELSE missing_steps_pass(
            add_step(b, create_missing_step_noninteractive(Head(missing)[1])).b,
            Tail(missing))

\* while missing_steps: <pass>; missing_steps = self.find_missing_steps()
\* A pass that adds nothing leaves the same list missing: the loop never exits.
missing_steps_loop(b) ==
    IF find_missing_steps(b.steps) = <<>> \/ b.hung THEN b
    ELSE LET b2 == missing_steps_pass(b, find_missing_steps(b.steps)) IN
         IF b2.hung THEN b2
         ELSE IF b2.steps = b.steps THEN [b2 EXCEPT !.hung = TRUE]
         ELSE missing_steps_loop(b2)

\* mutant of add_step: the step is taken back when the graph-wide checks complain
add_step_rollback(b, step) ==
    LET issues == step_validate(step) \o validate_next_step(b.steps, step) IN
    IF issues # <<>> THEN [b |-> b, ret |-> issues]
    ELSE LET b0 == [b EXCEPT !.steps = Append(@, step), !.step_count = @ + 1]
             b1 == [b0 EXCEPT !.state_file = save_state(b0)]
             b2 == missing_steps_loop(b1)
             all == validate_process_flow(b2.steps) \o validate_notes(b2.notes, b2.steps)
         IN IF all # <<>> THEN [b |-> b, ret |-> all] ELSE [b |-> b2, ret |-> all]

\* mutant of add_step: the graph-wide checks run on the collection as it was
\* before the step was appended
add_step_validates_before_append(b, step) ==
    LET issues == step_validate(step) \o validate_next_step(b.steps, step) IN
    IF issues # <<>> THEN [b |-> b, ret |-> issues]
    ELSE LET b0 == [b EXCEPT !.steps = Append(@, step), !.step_count = @ + 1]
             b1 == [b0 EXCEPT !.state_file = save_state(b0)]
             b2 == missing_steps_loop(b1)
         IN [b |-> b2,
             ret |-> (IF b.steps = <<>> THEN validate_process_flow(b2.steps)
                      ELSE validate_process_flow(b.steps))
                     \o validate_notes(b2.notes, b2.steps)]

add_step(b, step) ==
    LET issues == step_validate(step) \o validate_next_step(b.steps, step) IN
    IF issues # <<>> THEN [b |-> b, ret |-> issues]
    ELSE LET b0 == [b EXCEPT !.steps = Append(@, step), !.step_count = @ + 1]
             b1 == [b0 EXCEPT !.state_file = save_state(b0)]
             b2 == missing_steps_loop(b1)
         IN [b |-> b2,
             ret |-> validate_process_flow(b2.steps) \o validate_notes(b2.notes, b2.steps)]

\* mutant of link_note: every step with the related id is linked (no break)
link_note_every_match(ss, note) ==
    [i \in 1..Len(ss) |->
        IF ss[i].step_id = note.related_step_id
        THEN [ss[i] EXCEPT !.note_id = note.note_id] ELSE ss[i]]

\* for step in self.steps: if step.step_id == note.related_step_id: link; break
link_note(ss, note) ==
    LET k == FirstIndexOf(ss, note.related_step_id) IN
    IF k = 0 THEN ss ELSE [ss EXCEPT ![k].note_id = note.note_id]

\* mutant of add_note: no check for a note id that is already there
add_note_without_duplicate_check(b, note) ==
    IF note_validate(note) # <<>> THEN [b |-> b, ret |-> note_validate(note)]
    ELSE IF ~(\E i \in 1..Len(b.steps) : b.steps[i].step_id = note.related_step_id)
    THEN [b |-> b,
          ret |-> <<Issue("Related step '{related_step_id}' does not exist", "", <<>>, {},
                          note.related_step_id)>>]
    ELSE LET b1 == [b EXCEPT !.notes = Append(@, note), !.steps = link_note(@, note)] IN
         [b |-> [b1 EXCEPT !.state_file = save_state(b1)], ret |-> <<>>]

\* mutant of add_note: no check that the related step exists
add_note_without_step_check(b, note) ==
    IF note_validate(note) # <<>> THEN [b |-> b, ret |-> note_validate(note)]
    ELSE IF \E i \in 1..Len(b.notes) : b.notes[i].note_id = note.note_id
    THEN [b |-> b,
          ret |-> <<Issue("Note ID '{note_id}' already exists", "", <<>>, {note.note_id}, <<>>)>>]
    ELSE LET b1 == [b EXCEPT !.notes = Append(@, note), !.steps = link_note(@, note)] IN
         [b |-> [b1 EXCEPT !.state_file = save_state(b1)], ret |-> <<>>]

add_note(b, note) ==
    IF note_validate(note) # <<>> THEN [b |-> b, ret |-> note_validate(note)]
    ELSE IF \E i \in 1..Len(b.notes) : b.notes[i].note_id = note.note_id
    THEN [b |-> b,
          ret |-> <<Issue("Note ID '{note_id}' already exists", "", <<>>, {note.note_id}, <<>>)>>]
    ELSE IF ~(\E i \in 1..Len(b.steps) : b.steps[i].step_id = note.related_step_id)
    THEN [b |-> b,
          ret |-> <<Issue("Related step '{related_step_id}' does not exist", "", <<>>, {},
                          note.related_step_id)>>]
    ELSE LET b1 == [b EXCEPT !.notes = Append(@, note), !.steps = link_note(@, note)] IN
         [b |-> [b1 EXCEPT !.state_file = save_state(b1)], ret |-> <<>>]

(***************************************************************************)
(* Inputs.                                                                 *)
(***************************************************************************)
StepIdInputs == {Collect, Review, Blank}
TextInputs == {Text, Blank}
NextInputs == {Collect, Review, End}
NoteIdInputs == {Note1, Note2, Blank}
RelatedInputs == {Collect, Review, Blank}

\* The four free-text fields of a step: all filled, exactly one blank, or
\* all blank.
StepTextInputs ==
    {<<Text, Text, Text, Text>>, <<Blank, Text, Text, Text>>, <<Text, Blank, Text, Text>>,
     <<Text, Text, Blank, Text>>, <<Text, Text, Text, Blank>>, <<Blank, Blank, Blank, Blank>>}

StepInputs ==
    {ProcessStep(id, tx[1], tx[2], tx[3], tx[4], None, nss, nsf) :
        id \in StepIdInputs, tx \in StepTextInputs,
        nss \in NextInputs, nsf \in NextInputs}

NoteInputs ==
    {ProcessNote(nid, c, rel) :
        nid \in NoteIdInputs, c \in TextInputs, rel \in RelatedInputs}

(***************************************************************************)
(* The builder as a state machine: ProcessBuilder.__init__ with no saved   *)
(* state, then any sequence of add_step / add_note calls.  call and ret    *)
(* observe the last call: its arguments, the collections it found (before) *)
(* and the list it returned.  The caller reads the result before it calls  *)
(* again (Return).                                                         *)
(***************************************************************************)
Builder ==
    [steps |-> steps, notes |-> notes, step_count |-> step_count, hung |-> hung,
     state_file |-> state_file]

\* no OPENAI_API_KEY: self.openai_client = None
NoClient == [available |-> FALSE]

NoCall == [op |-> "none"]

Init ==
    /\ steps = <<>>
    /\ notes = <<>>
    /\ step_count = 0
    /\ call = NoCall
    /\ ret = <<>>
    /\ hung = FALSE
    /\ state_file = NoFile
    /\ openai_client = NoClient

Install(r) ==
    /\ steps' = r.b.steps
    /\ notes' = r.b.notes
    /\ step_count' = r.b.step_count
    /\ hung' = r.b.hung
    /\ state_file' = r.b.state_file
    /\ ret' = r.ret

AddStep(step) ==
    /\ call = NoCall
    /\ ~hung
    /\ (step_validate(step) \o validate_next_step(steps, step) = <<>>) => Len(steps) < MaxSteps
    /\ call' = [op |-> "add_step", step |-> step, before |-> Builder]
    /\ Install(add_step(Builder, step))
    /\ UNCHANGED openai_client

AddNote(note) ==
    /\ call = NoCall
    /\ ~hung
    /\ (add_note(Builder, note).ret = <<>>) => Len(notes) < MaxNotes
    /\ call' = [op |-> "add_note", note |-> note, before |-> Builder]
    /\ Install(add_note(Builder, note))
    /\ UNCHANGED openai_client

\* ProcessBuilder(process_name) is constructed again with the same name
NewBuilder ==
    /\ call = NoCall
    /\ ~hung
    /\ call' = [op |-> "__init__", before |-> Builder]
    /\ Install([b |-> ProcessBuilder_init(state_file), ret |-> <<>>])
    /\ UNCHANGED openai_client

Return ==
    /\ call # NoCall
    /\ ~hung
    /\ call' = NoCall
    /\ ret' = <<>>
    /\ UNCHANGED <<steps, notes, step_count, hung, state_file, openai_client>>

Next ==
    \/ \E step \in StepInputs : AddStep(step)
    \/ \E note \in NoteInputs : AddNote(note)
    \/ NewBuilder
    \/ Return

Spec == Init /\ [][Next]_vars

(***************************************************************************)
(* validate_process_flow as a pure function: any collection of at most     *)
(* MaxFlowSteps steps (ids may repeat, may be end-like, references may     *)
(* dangle), validated once.                                                *)
(***************************************************************************)
FlowStepIds == {Collect, Review, End}
FlowNexts == {Collect, Review, Ghost, end, End}
FlowEndNexts == {end, End, END}

FlowSteps ==
    {ProcessStep(id, Text, Text, Text, Text, None, nss, nsf) :
        id \in FlowStepIds, nss \in FlowNexts, nsf \in FlowNexts}

\* a single step that ends both ways, in every letter case of the sentinel
SingleEndSteps ==
    {ProcessStep(id, Text, Text, Text, Text, None, nss, nsf) :
        id \in FlowStepIds, nss \in FlowEndNexts, nsf \in FlowEndNexts}

FlowCollections ==
    UNION {[1..n -> FlowSteps] : n \in 0..MaxFlowSteps} \cup [1..1 -> SingleEndSteps]

FlowInit ==
    /\ steps \in FlowCollections
    /\ notes = <<>>
    /\ step_count = Len(steps)
    /\ call = NoCall
    /\ ret = <<>>
    /\ hung = FALSE
    /\ state_file = NoFile
    /\ openai_client = NoClient

ValidateProcessFlow ==
    /\ call = NoCall
    /\ call' = [op |-> "validate_process_flow"]
    /\ ret' = validate_process_flow(steps)
    /\ UNCHANGED <<steps, notes, step_count, hung, state_file, openai_client>>

FlowNext == ValidateProcessFlow

FlowSpec == FlowInit /\ [][FlowNext]_vars

(***************************************************************************)
(* create_step_id as a function of the title and the existing steps: any   *)
(* list of at most MaxExisting steps, in any order, with bare, numbered    *)
(* and non-numeric ids.                                                    *)
(***************************************************************************)
ExistingIds ==
    {Checkout, Checkout \o <<"_", "1">>, Checkout \o <<"_", "2">>, Checkout \o <<"_", "9">>,
     Checkout \o <<"_", "x">>, Review}

ExistingSteps == {ProcessStep(id, Text, Text, Text, Text, None, End, End) : id \in ExistingIds}

ExistingCollections == UNION {[1..n -> ExistingSteps] : n \in 0..MaxExisting}

TitleInputs == {Checkout, Review}

StepIdInit ==
    /\ steps \in ExistingCollections
    /\ notes = <<>>
    /\ step_count = Len(steps)
    /\ call = NoCall
    /\ ret = <<>>
    /\ hung = FALSE
    /\ state_file = NoFile
    /\ openai_client = NoClient

CreateStepId(title) ==
    /\ call = NoCall
    /\ call' = [op |-> "create_step_id", title |-> title]
    /\ ret' = create_step_id(steps, title)
    /\ UNCHANGED <<steps, notes, step_count, hung, state_file, openai_client>>

StepIdNext == \E title \in TitleInputs : CreateStepId(title)

StepIdSpec == StepIdInit /\ [][StepIdNext]_vars

(***************************************************************************)
(* validate_notes as a pure function: any list of at most MaxNoteList      *)
(* notes (ids may repeat, the related step may not exist) against any      *)
(* small step collection, validated once.                                  *)
(***************************************************************************)
NoteListIds == {Note1, Note2}
NoteListRelated == {Collect, Ghost}

NoteListNotes ==
    {ProcessNote(nid, Text, rel) : nid \in NoteListIds, rel \in NoteListRelated}

NoteListCollections == UNION {[1..n -> NoteListNotes] : n \in 0..MaxNoteList}

NoteListSteps ==
    {ProcessStep(id, Text, Text, Text, Text, None, End, End) : id \in {Collect, Review}}

NoteListStepCollections == UNION {[1..n -> NoteListSteps] : n \in 0..MaxFlowSteps}

NotesInit ==
    /\ steps \in NoteListStepCollections
    /\ notes \in NoteListCollections
    /\ step_count = Len(steps)
    /\ call = NoCall
    /\ ret = <<>>
    /\ hung = FALSE
    /\ state_file = NoFile
    /\ openai_client = NoClient

ValidateNotes ==
    /\ call = NoCall
    /\ call' = [op |-> "validate_notes"]
    /\ ret' = validate_notes(notes, steps)
    /\ UNCHANGED <<steps, notes, step_count, hung, state_file, openai_client>>

NotesNext == ValidateNotes

NotesSpec == NotesInit /\ [][NotesNext]_vars

(***************************************************************************)
(* ProcessStep.to_dict / from_dict over every step: optional fields None   *)
(* or set, created_at None or a datetime.                                  *)
(***************************************************************************)
OptionalInputs == {None, Text}

DatetimeInputs ==
    {datetime(2024, mo, d, h, 5, 59, us) :
        mo \in {1, 12}, d \in {9, 31}, h \in {0, 23}, us \in {0, 7, 123456}}

RoundTripSteps ==
    {[step_id |-> Collect, description |-> Text, decision |-> Text,
      success_outcome |-> Text, failure_outcome |-> Text, note_id |-> nid,
      next_step_success |-> nss, next_step_failure |-> end,
      validation_rules |-> vr, error_codes |-> ec, retry_logic |-> rl,
      design_feedback |-> df, created_at |-> ca] :
        nid \in {None, Note1}, nss \in {end, Review}, vr \in OptionalInputs,
        ec \in OptionalInputs, rl \in OptionalInputs, df \in {None, Empty, Text},
        ca \in DatetimeInputs \cup {NoneDatetime}}

RoundTripInit ==
    /\ steps \in {<<step>> : step \in RoundTripSteps}
    /\ notes = <<>>
    /\ step_count = 1
    /\ call = NoCall
    /\ ret = <<>>
    /\ hung = FALSE
    /\ state_file = NoFile
    /\ openai_client = NoClient

ToDict ==
    /\ call = NoCall
    /\ call' = [op |-> "to_dict"]
    /\ ret' = to_dict(steps[1])
    /\ UNCHANGED <<steps, notes, step_count, hung, state_file, openai_client>>

FromDict ==
    /\ call.op = "to_dict"
    /\ call' = [op |-> "from_dict", data |-> ret]
    /\ ret' = from_dict(ret)
    /\ UNCHANGED <<steps, notes, step_count, hung, state_file, openai_client>>

RoundTripNext == ToDict \/ FromDict

RoundTripSpec == RoundTripInit /\ [][RoundTripNext]_vars

(***************************************************************************)
(* suggested_first_step.  The AI client is what the builder holds in       *)
(* self.openai_client: None, or a client that answers                      *)
(* chat.completions.create with a message content or raises; calls counts  *)
(* the requests it has received.                                           *)
(***************************************************************************)
Client(content, raises) ==
    [available |-> TRUE, content |-> content, raises |-> raises, calls |-> 0]

\* str.split(): the maximal runs of non-whitespace characters
RECURSIVE split(_)
split(str) ==
    LET t == LStrip(str) IN
    IF t = <<>> THEN <<>>
    ELSE LET n == IF \E i \in 1..Len(t) : IsSpace(t[i])
                  THEN CHOOSE i \in 1..Len(t) :
                          IsSpace(t[i]) /\ \A j \in 1..(i - 1) : ~IsSpace(t[j])
                  ELSE Len(t) + 1
         IN <<SubSeq(t, 1, n - 1)>> \o split(SubSeq(t, n, Len(t)))

\* ' '.join(words)
RECURSIVE join(_)
join(words) ==
    IF words = <<>> THEN <<>>
    ELSE IF Len(words) = 1 THEN words[1]
    ELSE words[1] \o <<" ">> \o join(Tail(words))

\* suggestion = content.strip(); cut to five words when it has more
trimmed_suggestion(content) ==
    IF Len(split(Strip(content))) > 5
    THEN join(SubSeq(split(Strip(content)), 1, 5))
    ELSE Strip(content)

\* the property: [ret, client]; the except branch logs and falls off the end
\* of the function, so the caller gets None
suggested_first_step(ss, client) ==
    IF ~client.available \/ Len(ss) > 0
    THEN [ret |-> <<>>, client |-> client]
    ELSE IF client.raises
    THEN [ret |-> None, client |-> [client EXCEPT !.calls = @ + 1]]
    ELSE [ret |-> trimmed_suggestion(client.content),
          client |-> [client EXCEPT !.calls = @ + 1]]

ContentInputs ==
    {<<"G", "o">>, <<" ", "G", "o", " ", "o", "n", "\n">>, <<"a", " ", " ", "b">>,
     <<"a", " ", "b", " ", "c", " ", "d", " ", "e">>,
     <<"a", " ", "b", " ", "c", " ", "d", " ", "e", " ", "f">>, <<>>}

ClientInputs ==
    {NoClient} \cup {Client(c, FALSE) : c \in ContentInputs} \cup {Client(<<>>, TRUE)}

SuggestInit ==
    /\ steps \in NoteListStepCollections
    /\ notes = <<>>
    /\ step_count = Len(steps)
    /\ call = NoCall
    /\ ret = <<>>
    /\ hung = FALSE
    /\ state_file = NoFile
    /\ openai_client \in ClientInputs

SuggestedFirstStep ==
    /\ call = NoCall
    /\ openai_client.available => openai_client.calls < MaxCalls
    /\ call' = [op |-> "suggested_first_step", client |-> openai_client]
    /\ ret' = suggested_first_step(steps, openai_client).ret
    /\ openai_client' = suggested_first_step(steps, openai_client).client
    /\ UNCHANGED <<steps, notes, step_count, hung, state_file>>

SuggestReturn ==
    /\ call # NoCall
    /\ call' = NoCall
    /\ ret' = <<>>
    /\ UNCHANGED <<steps, notes, step_count, hung, state_file, openai_client>>

SuggestNext == SuggestedFirstStep \/ SuggestReturn

SuggestSpec == SuggestInit /\ [][SuggestNext]_vars

(***************************************************************************)
(* ProcessValidator.validate_process_flow(steps, start_step_id).  The      *)
(* result is [raised, is_valid, errors]; raised is the StopIteration of a  *)
(* next(...) without default over an id that names no step.                *)
(***************************************************************************)
Raised == [raised |-> TRUE, is_valid |-> FALSE, errors |-> <<>>]

\* the while loop over to_visit (a stack: pop() takes the last element)
RECURSIVE reachable_loop(_, _, _)
reachable_loop(ss, reachable_steps, to_visit) ==
    IF to_visit = <<>> THEN [raised |-> FALSE, reachable_steps |-> reachable_steps]
    ELSE LET current_id == to_visit[Len(to_visit)]
             rest == SubSeq(to_visit, 1, Len(to_visit) - 1)
             k == FirstIndexOf(ss, current_id)
         IN IF k = 0 THEN [raised |-> TRUE, reachable_steps |-> reachable_steps]
            ELSE LET s1 == ss[k].next_step_success
                     add1 == Lower(s1) # end /\ s1 \notin reachable_steps
                     r1 == IF add1 THEN reachable_steps \cup {s1} ELSE reachable_steps
                     v1 == IF add1 THEN Append(rest, s1) ELSE rest
                     s2 == ss[k].next_step_failure
                     add2 == Lower(s2) # end /\ s2 \notin r1
                     r2 == IF add2 THEN r1 \cup {s2} ELSE r1
                     v2 == IF add2 THEN Append(v1, s2) ELSE v1
                 IN reachable_loop(ss, r2, v2)

\* the nested has_cycle with its closure variables visited and path
RECURSIVE has_cycle(_, _, _, _)
has_cycle(ss, step_id, visited, path) ==
    IF step_id \in visited
    THEN [raised |-> FALSE, res |-> step_id \in Range(path), visited |-> visited, path |-> path]
    ELSE LET v1 == visited \cup {step_id}
             p1 == Append(path, step_id)
             k == FirstIndexOf(ss, step_id)
         IN IF k = 0
            THEN [raised |-> TRUE, res |-> FALSE, visited |-> v1, path |-> p1]
            ELSE LET a == IF Lower(ss[k].next_step_success) # end
                          THEN has_cycle(ss, ss[k].next_step_success, v1, p1)
                          ELSE [raised |-> FALSE, res |-> FALSE, visited |-> v1, path |-> p1]
                 IN IF a.raised \/ a.res THEN a
                    ELSE LET b == IF Lower(ss[k].next_step_failure) # end
                                  THEN has_cycle(ss, ss[k].next_step_failure,
                                                 a.visited, a.path)
                                  ELSE a
                         IN IF b.raised \/ b.res THEN b
                            ELSE [b EXCEPT !.path = SubSeq(b.path, 1, Len(b.path) - 1)]

validator_validate_process_flow(ss, start_step_id) ==
    IF FirstIndexOf(ss, start_step_id) = 0
    THEN [raised |-> FALSE, is_valid |-> FALSE,
          errors |-> <<Issue("Start step '{start_step_id}' does not exist",
                             "", <<>>, {}, start_step_id)>>]
    ELSE LET reach == reachable_loop(ss, {start_step_id}, <<start_step_id>>)
             unreachable == StepIdsOf(ss) \ reach.reachable_steps
             errors1 == IF unreachable # {}
                        THEN <<Issue("Unreachable steps: {unreachable}",
                                     "", <<>>, unreachable, <<>>)>>
                        ELSE <<>>
             cyc == has_cycle(ss, start_step_id, {}, <<>>)
             errors2 == IF cyc.res THEN errors1 \o <<PlainIssue("Process contains a cycle")>>
                        ELSE errors1
         IN IF reach.raised \/ cyc.raised THEN Raised
            ELSE [raised |-> FALSE, is_valid |-> errors2 = <<>>, errors |-> errors2]

StartInputs == {Collect, Review, Ghost}

ValidatorValidateProcessFlow ==
    /\ call = NoCall
    /\ \E start_step_id \in StartInputs :
          /\ call' = [op |-> "ProcessValidator.validate_process_flow",
                      start_step_id |-> start_step_id]
          /\ ret' = validator_validate_process_flow(steps, start_step_id)
    /\ UNCHANGED <<steps, notes, step_count, hung, state_file, openai_client>>

ValidatorReturn ==
    /\ call # NoCall
    /\ call' = NoCall
    /\ ret' = <<>>
    /\ UNCHANGED <<steps, notes, step_count, hung, state_file, openai_client>>

ValidatorNext == ValidatorValidateProcessFlow \/ ValidatorReturn

ValidatorSpec == FlowInit /\ [][ValidatorNext]_vars

(***************************************************************************)
(* The standalone process_builder.py: load_from_csv(steps_csv_path) over   *)
(* the data rows of a steps file with the expected header.  A row is its   *)
(* cells; the empty row is the one csv.reader yields for a blank line.     *)
(***************************************************************************)
CsvRow(step_id, next_step_success, next_step_failure) ==
    [empty |-> FALSE, step_id |-> step_id, description |-> Text, decision |-> Text,
     success_outcome |-> Text, failure_outcome |-> Text, note_id |-> Empty,
     next_step_success |-> next_step_success, next_step_failure |-> next_step_failure,
     validation_rules |-> Empty, error_codes |-> Empty, retry_logic |-> Empty]

EmptyRow == [empty |-> TRUE]

\* cell if cell else None
CellOrNone(cell) == IF cell = <<>> THEN None ELSE cell

\* the ProcessStep dataclass of the standalone module (no created_at)
StandaloneStep(row, step_id) ==
    [step_id |-> step_id, description |-> row.description, decision |-> row.decision,
     success_outcome |-> row.success_outcome, failure_outcome |-> row.failure_outcome,
     note_id |-> CellOrNone(row.note_id),
     next_step_success |-> row.next_step_success,
     next_step_failure |-> row.next_step_failure,
     validation_rules |-> CellOrNone(row.validation_rules),
     error_codes |-> CellOrNone(row.error_codes),
     retry_logic |-> CellOrNone(row.retry_logic), design_feedback |-> None]

\* the if/elif/else over one next-step cell: a name not yet in step_ids is
\* tracked as a forward reference
track_reference(step_ids, step_id, next_step) ==
    IF Lower(next_step) = end THEN step_ids
    ELSE IF next_step \in step_ids THEN step_ids
    ELSE IF next_step = step_id THEN step_ids
    ELSE step_ids \cup {next_step}

\* the for loop over the rows; a ValueError leaves the steps appended so far
RECURSIVE parse_rows(_, _, _, _)
parse_rows(rows, row_num, ss, step_ids) ==
    IF row_num > Len(rows) THEN [raised |-> FALSE, error |-> "", steps |-> ss]
    ELSE LET row == rows[row_num] IN
         IF row.empty THEN parse_rows(rows, row_num + 1, ss, step_ids)
         ELSE LET step_id == Strip(row.step_id) IN
              IF step_id = <<>>
              THEN [raised |-> TRUE, error |-> "Empty step name in row {row_num}", steps |-> ss]
              ELSE IF step_id \in step_ids
              THEN [raised |-> TRUE, error |-> "Duplicate step name in row {row_num}: '{step_id}'",
                    steps |-> ss]
              ELSE parse_rows(rows, row_num + 1,
                              Append(ss, StandaloneStep(row, step_id)),
                              track_reference(
                                  track_reference(step_ids \cup {step_id}, step_id,
                                                  row.next_step_success),
                                  step_id, row.next_step_failure))

\* steps and step_count are reset first; step_count is set after the loop
load_from_csv(rows) ==
    LET parsed == parse_rows(rows, 1, <<>>, {}) IN
    [raised |-> parsed.raised, error |-> parsed.error, steps |-> parsed.steps,
     notes |-> <<>>,
     step_count |-> IF parsed.raised THEN 0 ELSE Len(parsed.steps)]

CsvStepIds == {Collect, Review, Blank}

CsvNexts == {Collect, Review, Ghost, End}

CsvRows ==
    {CsvRow(id, s, f) : id \in CsvStepIds, s \in CsvNexts, f \in CsvNexts} \cup {EmptyRow}

CsvFiles == UNION {[1..n -> CsvRows] : n \in 0..MaxRows}

CsvInit ==
    /\ steps = <<>>
    /\ notes = <<>>
    /\ step_count = 0
    /\ call = NoCall
    /\ ret = <<>>
    /\ hung = FALSE
    /\ state_file = NoFile
    /\ openai_client = NoClient

\* load_from_csv resets steps, notes and step_count before it reads the
\* file, so its outcome is the same from every builder state; it is taken
\* here from builders without steps
LoadFromCsv ==
    /\ call = NoCall
    /\ steps = <<>>
    /\ \E rows \in CsvFiles :
          /\ call' = [op |-> "load_from_csv", rows |-> rows]
          /\ steps' = load_from_csv(rows).steps
          /\ notes' = load_from_csv(rows).notes
          /\ step_count' = load_from_csv(rows).step_count
          /\ ret' = [raised |-> load_from_csv(rows).raised,
                     error |-> load_from_csv(rows).error]
    /\ UNCHANGED <<hung, state_file, openai_client>>

CsvReturn ==
    /\ call # NoCall
    /\ call' = NoCall
    /\ ret' = <<>>
    /\ UNCHANGED <<steps, notes, step_count, hung, state_file, openai_client>>

CsvNext == LoadFromCsv \/ CsvReturn

CsvSpec == CsvInit /\ [][CsvNext]_vars

(***************************************************************************)
(* The builder over a loaded collection: ProcessBuilder.__init__ finds a   *)
(* state file (load_state), whose steps are whatever the file holds:       *)
(* references may dangle, be blank, repeat.  Then find_missing_steps and   *)
(* add_step(interactive=False) are called on it.                           *)
(***************************************************************************)
LoadedStepIds == {Collect, Review}
LoadedNexts == {Review, Ghost, Blank, End}

LoadedSteps ==
    {ProcessStep(id, Text, Text, Text, Text, None, nss, nsf) :
        id \in LoadedStepIds, nss \in LoadedNexts, nsf \in LoadedNexts}

LoadedCollections == UNION {[1..n -> LoadedSteps] : n \in 0..MaxLoaded}

LoadedStepInputs ==
    {ProcessStep(id, Text, Text, Text, Text, None, nss, End) :
        id \in {Collect, Ghost}, nss \in {Collect, End}}

LoadedInit ==
    /\ steps \in LoadedCollections
    /\ notes = <<>>
    /\ step_count = Len(steps)
    /\ call = NoCall
    /\ ret = <<>>
    /\ hung = FALSE
    /\ state_file = save_state([steps |-> steps, notes |-> notes, step_count |-> step_count])
    /\ openai_client = NoClient

FindMissingSteps ==
    /\ call = NoCall
    /\ ~hung
    /\ call' = [op |-> "find_missing_steps", before |-> Builder]
    /\ ret' = find_missing_steps(steps)
    /\ UNCHANGED <<steps, notes, step_count, hung, state_file, openai_client>>

LoadedNext ==
    \/ FindMissingSteps
    \/ \E step \in LoadedStepInputs : AddStep(step)
    \/ Return

LoadedSpec == LoadedInit /\ [][LoadedNext]_vars

(***************************************************************************)
(* Vocabulary of the properties, stated without the operators of the       *)
(* model above.                                                            *)
(***************************************************************************)
\* empty or whitespace-only
IsBlankString(s) == \A i \in 1..Len(s) : s[i] \in {" ", "\t", "\n"}

\* 'end' in any letter case
IsEndSentinel(s) ==
    /\ Len(s) = 3
    /\ s[1] \in {"e", "E"}
    /\ s[2] \in {"n", "N"}
    /\ s[3] \in {"d", "D"}

HasStepId(ss, id) == \E i \in 1..Len(ss) : ss[i].step_id = id

UnresolvedNext(ss, id) == ~IsEndSentinel(id) /\ ~HasStepId(ss, id)

FailsPerStepValidation(ss, step) ==
    \/ IsBlankString(step.step_id)
    \/ IsBlankString(step.description)
    \/ IsBlankString(step.decision)
    \/ IsBlankString(step.success_outcome)
    \/ IsBlankString(step.failure_outcome)
    \/ UnresolvedNext(ss, step.next_step_success)
    \/ UnresolvedNext(ss, step.next_step_failure)

Messages(issues) == {issues[i].msg : i \in 1..Len(issues)}

IsPrefix(s, t) == Len(s) <= Len(t) /\ SubSeq(t, 1, Len(s)) = s

AddStepCalled == call.op = "add_step"

(***************************************************************************)
(* C1: for every sequence of add_step calls no two steps of the builder    *)
(* share a step_id: an add_step call whose step has the step_id of a step  *)
(* already in the collection returns a non-empty issue list and leaves the *)
(* steps collection unchanged.                                             *)
(***************************************************************************)
C1_UniqueStepIds ==
    /\ \A i, j \in 1..Len(steps) : i # j => steps[i].step_id # steps[j].step_id
    /\ (AddStepCalled /\ HasStepId(call.before.steps, call.step.step_id))
          => (ret # <<>> /\ steps = call.before.steps)

(***************************************************************************)
(* C2: add_step is all-or-nothing on per-step validation failure: a step   *)
(* with a blank step_id, description, decision, success_outcome or         *)
(* failure_outcome, or with a next step that is neither 'end' nor the id   *)
(* of a step already in the collection, gets back the non-empty list of    *)
(* exactly those issues, and steps, step_count and notes are unchanged.    *)
(***************************************************************************)
C2_RejectedStepLeavesBuilderUnchanged ==
    (AddStepCalled /\ FailsPerStepValidation(call.before.steps, call.step)) =>
        /\ ret # <<>>
        /\ steps = call.before.steps
        /\ step_count = call.before.step_count
        /\ notes = call.before.notes
        /\ ("Step ID cannot be empty" \in Messages(ret))
              <=> IsBlankString(call.step.step_id)
        /\ ("Description cannot be empty" \in Messages(ret))
              <=> IsBlankString(call.step.description)
        /\ ("Decision cannot be empty" \in Messages(ret))
              <=> IsBlankString(call.step.decision)
        /\ ("Success outcome cannot be empty" \in Messages(ret))
              <=> IsBlankString(call.step.success_outcome)
        /\ ("Failure outcome cannot be empty" \in Messages(ret))
              <=> IsBlankString(call.step.failure_outcome)
        /\ ("Next step on success path '{next_step_success}' does not exist" \in Messages(ret))
              <=> UnresolvedNext(call.before.steps, call.step.next_step_success)
        /\ ("Next step on failure path '{next_step_failure}' does not exist" \in Messages(ret))
              <=> UnresolvedNext(call.before.steps, call.step.next_step_failure)

\* a rejected call on a builder that already holds a step and a note
C2_Witness ==
    /\ AddStepCalled
    /\ FailsPerStepValidation(call.before.steps, call.step)
    /\ IsBlankString(call.step.failure_outcome)
    /\ UnresolvedNext(call.before.steps, call.step.next_step_success)
    /\ Len(steps) > 0
    /\ Len(notes) > 0
    /\ Len(ret) > 1

(***************************************************************************)
(* C3: graph-wide validation is advisory in add_step: a step that passes   *)
(* per-step validation is appended as the last element of steps and stays  *)
(* there even when add_step returns a non-empty list, which is the         *)
(* validate_process_flow issues followed by the validate_notes issues of   *)
(* the whole collection; add_step never removes a step.                    *)
(***************************************************************************)
C3_AcceptedStepStaysAppended ==
    AddStepCalled =>
        /\ IsPrefix(call.before.steps, steps)
        /\ ~FailsPerStepValidation(call.before.steps, call.step) =>
              /\ IsPrefix(Append(call.before.steps, call.step), steps)
              /\ steps[Len(steps)] = call.step
              /\ step_count = call.before.step_count + 1
              /\ ret = validate_process_flow(steps) \o validate_notes(notes, steps)

\* an accepted step that is still there although issues came back
C3_Witness ==
    /\ AddStepCalled
    /\ ~FailsPerStepValidation(call.before.steps, call.step)
    /\ ret # <<>>
    /\ Len(steps) = Len(call.before.steps) + 1
    /\ steps[Len(steps)] = call.step

(***************************************************************************)
(* Vocabulary of the flow properties.  A step is identified by its         *)
(* step_id; an 'end' value (any case) is the sentinel, never a reference   *)
(* to a step; an id is looked up as the first step that carries it.        *)
(***************************************************************************)
FlowValidated == call.op = "validate_process_flow"

PathKinds == {"success", "failure"}

CircularMsg == "Circular reference detected in {path_name} path: {path}"
NotFoundMsg == "Step name '{current}' referenced in {path_name} path not found"
DisconnectedMsg == "Disconnected step names found: {names}"
NoEndMsg == "Process must have at least one path that leads to 'End'"

StepNamed(ss, id) ==
    ss[CHOOSE i \in 1..Len(ss) :
          ss[i].step_id = id /\ \A j \in 1..Len(ss) : ss[j].step_id = id => i <= j]

Edge(step, kind) ==
    CASE kind = "success" -> step.next_step_success
      [] kind = "failure" -> step.next_step_failure

\* the id reached after n hops along one kind of edge from the first step;
\* None once the walk has ended (at 'end' or at an id that names no step)
RECURSIVE Walk(_, _, _)
Walk(ss, kind, n) ==
    IF n = 0 THEN ss[1].step_id
    ELSE LET prev == Walk(ss, kind, n - 1) IN
         IF prev = None \/ IsEndSentinel(prev) \/ ~HasStepId(ss, prev) THEN None
         ELSE Edge(StepNamed(ss, prev), kind)

Walked(ss, kind, n) == [i \in 1..(n + 1) |-> Walk(ss, kind, i - 1)]

OnWalk(ss, kind, n) == Walk(ss, kind, n) # None /\ ~IsEndSentinel(Walk(ss, kind, n))

Revisits(ss, kind, n) ==
    /\ n >= 1
    /\ OnWalk(ss, kind, n)
    /\ \E i \in 0..(n - 1) : Walk(ss, kind, i) = Walk(ss, kind, n)

FirstRevisit(ss, kind, n) ==
    Revisits(ss, kind, n) /\ \A m \in 1..(n - 1) : ~Revisits(ss, kind, m)

ReachesEnd(ss, kind) ==
    \E n \in 0..Len(ss) : Walk(ss, kind, n) # None /\ IsEndSentinel(Walk(ss, kind, n))

IssuesWith(issues, m) == {k \in 1..Len(issues) : issues[k].msg = m}

References(ss) ==
    {x \in {ss[i].next_step_success : i \in 1..Len(ss)}
           \cup {ss[i].next_step_failure : i \in 1..Len(ss)} : ~IsEndSentinel(x)}

Unreferenced(ss) ==
    {ss[i].step_id : i \in 1..Len(ss)} \ (References(ss) \cup {ss[1].step_id})

(***************************************************************************)
(* C4: cycle detection: whenever following next_step_success from the      *)
(* first-added step revisits a step id before reaching 'end',              *)
(* validate_process_flow returns a 'Circular reference detected in success *)
(* path' issue whose path lists the walked ids in order beginning with the *)
(* first step (for A -> B -> A it contains A, B); the same for             *)
(* next_step_failure and the failure path.                                 *)
(***************************************************************************)
C4_CycleOnWalkIsReported ==
    (FlowValidated /\ steps # <<>>) =>
        \A kind \in PathKinds : \A n \in 1..Len(steps) :
            FirstRevisit(steps, kind, n) =>
                \E k \in IssuesWith(ret, CircularMsg) :
                    /\ ret[k].path_name = kind
                    /\ ret[k].path[1] = steps[1].step_id
                    /\ IsPrefix(Walked(steps, kind, n - 1), ret[k].path)

\* A success -> B, B success -> A, and the failure walk ends at once
C4_Witness ==
    /\ FlowValidated
    /\ Len(steps) = 2
    /\ steps[1].step_id = Collect /\ steps[1].next_step_success = Review
    /\ steps[2].step_id = Review /\ steps[2].next_step_success = Collect
    /\ IsEndSentinel(steps[1].next_step_failure)
    /\ FirstRevisit(steps, "success", 2)
    /\ \E k \in IssuesWith(ret, CircularMsg) :
          ret[k].path_name = "success" /\ IsPrefix(<<Collect, Review>>, ret[k].path)

(***************************************************************************)
(* C5: for [Collect (success -> Review, failure -> end), Review (success   *)
(* -> end, failure -> Collect)] validate_process_flow reports no 'not      *)
(* found' issue and no 'Disconnected step names' issue, and it reports a   *)
(* 'Circular reference detected in failure path' issue.                    *)
(***************************************************************************)
CollectReviewScenario ==
    <<ProcessStep(Collect, Text, Text, Text, Text, None, Review, end),
      ProcessStep(Review, Text, Text, Text, Text, None, end, Collect)>>

C5_ScenarioFlagsFailureCycle ==
    (FlowValidated /\ steps = CollectReviewScenario) =>
        /\ IssuesWith(ret, NotFoundMsg) = {}
        /\ IssuesWith(ret, DisconnectedMsg) = {}
        /\ \E k \in IssuesWith(ret, CircularMsg) : ret[k].path_name = "failure"

(***************************************************************************)
(* C6: disconnected detection is global and exempts only the first step:   *)
(* validate_process_flow returns a 'Disconnected step names found' issue   *)
(* exactly when some step other than the first-added one has a step_id     *)
(* that no step of the collection references as next_step_success or       *)
(* next_step_failure, and the issue names exactly those ids; the first     *)
(* step is never named even when unreferenced.                             *)
(***************************************************************************)
C6_DisconnectedIsExactlyUnreferenced ==
    (FlowValidated /\ steps # <<>>) =>
        /\ (IssuesWith(ret, DisconnectedMsg) # {}) <=> (Unreferenced(steps) # {})
        /\ \A k \in IssuesWith(ret, DisconnectedMsg) :
              /\ ret[k].names = Unreferenced(steps)
              /\ steps[1].step_id \notin ret[k].names
              /\ k = Len(ret)

\* the first step and a second one, neither referenced: only the second is named
C6_Witness ==
    /\ FlowValidated
    /\ Len(steps) = 2
    /\ steps[1].step_id # steps[2].step_id
    /\ References(steps) = {}
    /\ \E k \in IssuesWith(ret, DisconnectedMsg) : ret[k].names = {steps[2].step_id}

(***************************************************************************)
(* C7 (as claimed): validate_process_flow detects unreachable steps: for   *)
(* every non-empty collection in which some step cannot be reached from    *)
(* the first-added step by following success and failure edges, the        *)
(* returned issue list is non-empty.                                       *)
(***************************************************************************)
RECURSIVE ReachableFrom(_, _)
ReachableFrom(ss, ids) ==
    LET more == {x \in {Edge(ss[i], kind) : i \in {j \in 1..Len(ss) : ss[j].step_id \in ids},
                                            kind \in PathKinds} : ~IsEndSentinel(x)}
    IN IF more \subseteq ids THEN ids ELSE ReachableFrom(ss, ids \cup more)

Reachable(ss) == ReachableFrom(ss, {ss[1].step_id})

\* Checked on collections whose ids are pairwise distinct and not the sentinel,
\* so that no refutation rests on a duplicate or on a step named 'end'.
PlainIds(ss) ==
    /\ \A i, j \in 1..Len(ss) : i # j => ss[i].step_id # ss[j].step_id
    /\ \A i \in 1..Len(ss) : ~IsEndSentinel(ss[i].step_id)

C8_MissingReferenceOnWalkIsReported ==
    (FlowValidated /\ steps # <<>>) =>
        \A kind \in PathKinds : \A n \in 1..Len(steps) :
            (OnWalk(steps, kind, n) /\ ~HasStepId(steps, Walk(steps, kind, n))) =>
                \E k \in IssuesWith(ret, NotFoundMsg) :
                    /\ ret[k].path_name = kind
                    /\ ret[k].subject = Walk(steps, kind, n)
                    /\ \A j \in IssuesWith(ret, NotFoundMsg) \cup IssuesWith(ret, CircularMsg) :
                          ret[j].path_name = kind => j = k

\* the walk passes through a second step before it meets the missing id
C8_Witness ==
    /\ FlowValidated
    /\ Len(steps) = 2
    /\ OnWalk(steps, "success", 2)
    /\ ~HasStepId(steps, Walk(steps, "success", 2))
    /\ \E k \in IssuesWith(ret, NotFoundMsg) :
          ret[k].path_name = "success" /\ ret[k].subject = Walk(steps, "success", 2)

(***************************************************************************)
(* C9: for a non-empty collection validate_process_flow returns "Process   *)
(* must have at least one path that leads to 'End'" exactly when no step   *)
(* of the whole collection has next_step_success or next_step_failure      *)
(* equal to 'end' compared case-insensitively; a single step pointing both *)
(* fields at non-existent, non-end ids gets this issue.                    *)
(***************************************************************************)
SomeStepEnds(ss) ==
    \E i \in 1..Len(ss) :
        IsEndSentinel(ss[i].next_step_success) \/ IsEndSentinel(ss[i].next_step_failure)

C9_NoEndIssueIffNoStepEnds ==
    (FlowValidated /\ steps # <<>>) =>
        /\ (IssuesWith(ret, NoEndMsg) # {}) <=> ~SomeStepEnds(steps)
        /\ IssuesWith(ret, NoEndMsg) \subseteq {1}

\* one step, both fields at an id that names no step
C9_Witness ==
    /\ FlowValidated
    /\ Len(steps) = 1
    /\ ~HasStepId(steps, steps[1].next_step_success)
    /\ ~HasStepId(steps, steps[1].next_step_failure)
    /\ ~SomeStepEnds(steps)
    /\ IssuesWith(ret, NoEndMsg) = {1}

(***************************************************************************)
(* C10 (as claimed): the end-path requirement is about the first step's    *)
(* chains: validate_process_flow omits the "Process must have at least one *)
(* path that leads to 'End'" issue only if, starting from the first-added  *)
(* step, following the success chain or following the failure chain        *)
(* eventually reaches 'end'.                                               *)
(***************************************************************************)
C10_NoEndIssueOmittedOnlyIfChainEnds ==
    (FlowValidated /\ steps # <<>> /\ PlainIds(steps) /\ IssuesWith(ret, NoEndMsg) = {}) =>
        (ReachesEnd(steps, "success") \/ ReachesEnd(steps, "failure"))

(***************************************************************************)
(* C10 (amended): validate_process_flow omits the "Process must have at    *)
(* least one path that leads to 'End'" issue only if some step of the      *)
(* collection, on the first step's chains or not, has next_step_success or *)
(* next_step_failure equal to 'end' (any case).                            *)
(***************************************************************************)
C10_NoEndIssueOmittedOnlyIfSomeStepEnds ==
    (FlowValidated /\ steps # <<>> /\ IssuesWith(ret, NoEndMsg) = {}) =>
        \E i \in 1..Len(steps) : \E kind \in PathKinds : IsEndSentinel(Edge(steps[i], kind))

\* the issue is omitted although neither chain of the first step ends
C10_Witness ==
    /\ FlowValidated
    /\ steps # <<>>
    /\ IssuesWith(ret, NoEndMsg) = {}
    /\ ~ReachesEnd(steps, "success")
    /\ ~ReachesEnd(steps, "failure")

(***************************************************************************)
(* C11: a collection of exactly one step whose next_step_success and       *)
(* next_step_failure are both the end sentinel in any letter case ('end',  *)
(* 'End', 'END') validates cleanly: validate_process_flow returns the      *)
(* empty list.                                                             *)
(***************************************************************************)
C11_SingleEndStepValidatesCleanly ==
    (/\ FlowValidated
     /\ Len(steps) = 1
     /\ IsEndSentinel(steps[1].next_step_success)
     /\ IsEndSentinel(steps[1].next_step_failure)) => ret = <<>>

\* one step, 'END' on success and 'End' on failure
C11_Witness ==
    /\ FlowValidated
    /\ Len(steps) = 1
    /\ steps[1].step_id = Collect
    /\ steps[1].next_step_success = END
    /\ steps[1].next_step_failure = End
    /\ ret = <<>>

(***************************************************************************)
(* C12: validate_process_flow on an empty step collection returns exactly  *)
(* the one-element list ["Process must have at least one step"] and        *)
(* performs no further check.                                              *)
(***************************************************************************)
C12_EmptyCollectionGetsOneIssue ==
    (FlowValidated /\ steps = <<>>) =>
        /\ Len(ret) = 1
        /\ ret[1].msg = "Process must have at least one step"

\* the empty collection has been validated
C12_Witness ==
    /\ FlowValidated
    /\ Len(steps) = 0
    /\ Len(ret) = 1

(***************************************************************************)
(* C13: find_missing_steps returns, in step insertion order and success    *)
(* before failure within a step, exactly one tuple (missing_id,            *)
(* referencing_step_id, 'success'|'failure') for every step field whose    *)
(* value is not 'end' (case-insensitive) and is not the step_id of any     *)
(* step in the collection; it returns [] exactly when every non-end        *)
(* reference resolves.                                                     *)
(***************************************************************************)
FieldKinds == <<"success", "failure">>

\* the fields <<step index, kind index>> whose value names no step
MissingFields(ss) ==
    {f \in (1..Len(ss)) \X {1, 2} : UnresolvedNext(ss, Edge(ss[f[1]], FieldKinds[f[2]]))}

FieldBefore(f, g) == f[1] < g[1] \/ (f[1] = g[1] /\ f[2] < g[2])

FieldRank(ss, f) == Cardinality({g \in MissingFields(ss) : FieldBefore(g, f)}) + 1

FindMissingCalled == call.op = "find_missing_steps"

C13_MissingStepsListedInOrder ==
    FindMissingCalled =>
        /\ Len(ret) = Cardinality(MissingFields(steps))
        /\ \A f \in MissingFields(steps) :
              ret[FieldRank(steps, f)] =
                  <<Edge(steps[f[1]], FieldKinds[f[2]]), steps[f[1]].step_id, FieldKinds[f[2]]>>
        /\ (ret = <<>>) <=>
              \A i \in 1..Len(steps) : \A kind \in PathKinds :
                  IsEndSentinel(Edge(steps[i], kind)) \/ HasStepId(steps, Edge(steps[i], kind))

\* two steps, the first with both fields missing, the second with one
C13_Witness ==
    /\ FindMissingCalled
    /\ Len(steps) = 2
    /\ MissingFields(steps) = {<<1, 1>>, <<1, 2>>, <<2, 2>>}
    /\ Len(ret) = 3
    /\ ret[2][3] = "failure"

(***************************************************************************)
(* C14: missing-step fixed point: starting from any step collection, the   *)
(* loop of add_step(interactive=False) that repeatedly calls               *)
(* find_missing_steps and adds, for each reported missing id, an           *)
(* auto-generated step whose next_step_success and next_step_failure are   *)
(* both 'End' terminates, and afterwards find_missing_steps returns [].    *)
(***************************************************************************)
C14_MissingStepLoopTerminates ==
    (AddStepCalled /\ ~FailsPerStepValidation(call.before.steps, call.step)) =>
        /\ ~hung
        /\ MissingFields(steps) = {}

(***************************************************************************)
(* C15: identifier assignment policy: create_step_id(title, existing)      *)
(* returns title unchanged when no existing step has that step_id; when    *)
(* the title is taken it returns title_N where N is one greater than the   *)
(* highest numeric suffix among existing ids of the form title_<N>,        *)
(* starting at _1 when only the bare title collides; so 'Checkout' with no *)
(* steps gives 'Checkout', with ['Checkout'] gives 'Checkout_1', and with  *)
(* ['Checkout', 'Checkout_1'] gives 'Checkout_2'.                          *)
(***************************************************************************)
CreateStepIdCalled == call.op = "create_step_id"

Decimal(n) ==
    LET d == <<"0", "1", "2", "3", "4", "5", "6", "7", "8", "9">> IN
    IF n < 10 THEN <<d[n + 1]>> ELSE <<d[(n \div 10) + 1], d[(n % 10) + 1]>>

Suffixed(title, n) == title \o <<"_">> \o Decimal(n)

NumericSuffixes(ss, title) == {n \in 0..98 : HasStepId(ss, Suffixed(title, n))}

Highest(S) == CHOOSE n \in S : \A m \in S : m <= n

C15_TitleOrNextSuffix ==
    CreateStepIdCalled =>
        IF ~HasStepId(steps, call.title) THEN ret = call.title
        ELSE IF NumericSuffixes(steps, call.title) = {} THEN ret = Suffixed(call.title, 1)
        ELSE ret = Suffixed(call.title, Highest(NumericSuffixes(steps, call.title)) + 1)

(***************************************************************************)
(* C16: create_step_id always returns a unique id: for every title and     *)
(* every existing step list, in any order and with any mix of bare and     *)
(* suffixed ids, the returned id differs from the step_id of every         *)
(* existing step.                                                          *)
(***************************************************************************)
C16_CreatedIdIsUnused ==
    CreateStepIdCalled => ~HasStepId(steps, ret)

(***************************************************************************)
(* C17: validate_notes(notes, steps) returns exactly: the single issue     *)
(* 'Duplicate note IDs found' once if any two notes share a note_id        *)
(* (however many duplicates there are), followed by one "Note <note_id>    *)
(* references non-existent step name '<related_step_id>'" issue per note,  *)
(* in note order, whose related_step_id is not the step_id of any step; it *)
(* returns [] when note ids are distinct and every note's step exists.     *)
(***************************************************************************)
NotesValidated == call.op = "validate_notes"

DuplicateMsg == "Duplicate note IDs found"
OrphanMsg == "Note {note_id} references non-existent step name '{related_step_id}'"

SharesNoteId(ns) == \E i, j \in 1..Len(ns) : i # j /\ ns[i].note_id = ns[j].note_id

Orphans(ns, ss) == {i \in 1..Len(ns) : ~HasStepId(ss, ns[i].related_step_id)}

\* position of the issue of orphan i in the returned list
OrphanPosition(ns, ss, i) ==
    (IF SharesNoteId(ns) THEN 1 ELSE 0) + Cardinality({j \in Orphans(ns, ss) : j <= i})

C17_DuplicateOnceThenOrphansInOrder ==
    NotesValidated =>
        /\ Len(ret) = (IF SharesNoteId(notes) THEN 1 ELSE 0) + Cardinality(Orphans(notes, steps))
        /\ SharesNoteId(notes) => ret[1].msg = DuplicateMsg
        /\ \A i \in Orphans(notes, steps) :
              LET issue == ret[OrphanPosition(notes, steps, i)] IN
              /\ issue.msg = OrphanMsg
              /\ issue.names = {notes[i].note_id}
              /\ issue.subject = notes[i].related_step_id
        /\ (~SharesNoteId(notes) /\ Orphans(notes, steps) = {}) => ret = <<>>

\* three notes with one id, the first and the last of them orphaned
C17_Witness ==
    /\ NotesValidated
    /\ Len(notes) = 3
    /\ \A i \in 1..3 : notes[i].note_id = notes[1].note_id
    /\ Orphans(notes, steps) = {1, 3}
    /\ Len(ret) = 3
    /\ ret[1].msg = DuplicateMsg

(***************************************************************************)
(* C18: add_note rejects without side effects: when the note has a blank   *)
(* note_id, content or related_step_id, or its note_id equals that of a    *)
(* note already in the collection, or its related_step_id is not the       *)
(* step_id of any step, add_note returns a non-empty issue list and leaves *)
(* notes and every step's note_id unchanged.                               *)
(***************************************************************************)
AddNoteCalled == call.op = "add_note"

HasNoteId(ns, id) == \E i \in 1..Len(ns) : ns[i].note_id = id

NoteIsRejectable(b, note) ==
    \/ IsBlankString(note.note_id)
    \/ IsBlankString(note.content)
    \/ IsBlankString(note.related_step_id)
    \/ HasNoteId(b.notes, note.note_id)
    \/ ~HasStepId(b.steps, note.related_step_id)

C18_RejectedNoteLeavesBuilderUnchanged ==
    (AddNoteCalled /\ NoteIsRejectable(call.before, call.note)) =>
        /\ ret # <<>>
        /\ notes = call.before.notes
        /\ Len(steps) = Len(call.before.steps)
        /\ \A i \in 1..Len(steps) : steps[i].note_id = call.before.steps[i].note_id

\* a well-formed note for an existing step whose id is already taken
C18_Witness ==
    /\ AddNoteCalled
    /\ ~IsBlankString(call.note.note_id)
    /\ ~IsBlankString(call.note.content)
    /\ HasStepId(call.before.steps, call.note.related_step_id)
    /\ HasNoteId(call.before.notes, call.note.note_id)
    /\ \E i \in 1..Len(steps) : steps[i].note_id # call.note.note_id
    /\ ret # <<>>

(***************************************************************************)
(* C19: a successful add_note returns [], appends the note as the last     *)
(* element of notes, and sets note_id of the first step (in insertion      *)
(* order) whose step_id equals the note's related_step_id to the note's    *)
(* note_id, replacing any earlier link; the note_id of every other step    *)
(* and all other step fields are unchanged.                                *)
(***************************************************************************)
FirstStepNamed(ss, id) ==
    CHOOSE i \in 1..Len(ss) :
        ss[i].step_id = id /\ \A j \in 1..Len(ss) : ss[j].step_id = id => i <= j

C19_AcceptedNoteIsAppendedAndLinked ==
    (AddNoteCalled /\ ~NoteIsRejectable(call.before, call.note)) =>
        /\ ret = <<>>
        /\ notes = Append(call.before.notes, call.note)
        /\ Len(steps) = Len(call.before.steps)
        /\ \A i \in 1..Len(steps) :
              IF i = FirstStepNamed(call.before.steps, call.note.related_step_id)
              THEN steps[i] = [call.before.steps[i] EXCEPT !.note_id = call.note.note_id]
              ELSE steps[i] = call.before.steps[i]

\* a second note for a step id carried by two steps: the first step's link
\* is replaced, the second step stays unlinked
C19_Witness ==
    /\ AddNoteCalled
    /\ ~NoteIsRejectable(call.before, call.note)
    /\ Len(steps) = 2
    /\ steps[1].step_id = call.note.related_step_id
    /\ steps[2].step_id = call.note.related_step_id
    /\ call.before.steps[1].note_id \notin {None, call.note.note_id}
    /\ steps[1].note_id = call.note.note_id
    /\ steps[2].note_id = None
    /\ Len(notes) = 2

(***************************************************************************)
(* C20: round trip: for every ProcessStep, including ones whose optional   *)
(* fields (note_id, validation_rules, error_codes, retry_logic,            *)
(* design_feedback) are None, ProcessStep.from_dict(step.to_dict()) is     *)
(* equal to the original step field by field.                              *)
(***************************************************************************)
RoundTripped == call.op = "from_dict"

StepFields ==
    {"step_id", "description", "decision", "success_outcome", "failure_outcome",
     "note_id", "next_step_success", "next_step_failure", "validation_rules",
     "error_codes", "retry_logic", "design_feedback", "created_at"}

C20_FromDictOfToDictIsEqual ==
    RoundTripped =>
        /\ DOMAIN ret = StepFields
        /\ \A f \in StepFields : ret[f] = steps[1][f]

\* every optional field None, a creation time with microseconds
C20_Witness ==
    /\ RoundTripped
    /\ \A f \in {"note_id", "validation_rules", "error_codes", "retry_logic",
                  "design_feedback"} : steps[1][f] = <<"None">>
    /\ steps[1].created_at.microsecond = 123456
    /\ Len(call.data.created_at) = 26
    /\ ret.created_at.microsecond = 123456

(***************************************************************************)
(* C21: state persistence: after any add_step call that appended a step    *)
(* (and after any successful add_note), constructing a new ProcessBuilder  *)
(* with the same process_name loads the saved state, so the new builder's  *)
(* steps have the same length and order and the same step_id and           *)
(* description per position as the original builder's steps.               *)
(***************************************************************************)
BuilderConstructed == call.op = "__init__"

SuggestCalled == call.op = "suggested_first_step"

RequestsSent(client) == IF client.available THEN client.calls ELSE 0

C22_SuggestionOnlyFromClientOnEmptyBuilder ==
    SuggestCalled =>
        IF Len(steps) > 0 \/ ~call.client.available
        THEN /\ ret = <<>>
             /\ RequestsSent(openai_client) = RequestsSent(call.client)
        ELSE /\ RequestsSent(openai_client) = RequestsSent(call.client) + 1
             /\ ret # <<"None">>
             /\ ret = trimmed_suggestion(call.client.content)

(***************************************************************************)
(* C23: in the path walk of validate_process_flow an id is added to the    *)
(* path only after the already-visited check, so the path of a 'Circular   *)
(* reference detected' issue lists each walked step id exactly once and    *)
(* does not end with the repeated id (for A->B->A the path is 'A -> B').   *)
(***************************************************************************)
NoRepeat(path) == \A i, j \in 1..Len(path) : i # j => path[i] # path[j]

C23_CircularPathListsEachIdOnce ==
    (FlowValidated /\ steps # <<>>) =>
        \A k \in IssuesWith(ret, CircularMsg) : NoRepeat(ret[k].path)

(***************************************************************************)
(* C23 as the code has it: the id is added to the path before the          *)
(* already-visited check, so the path of a 'Circular reference detected'   *)
(* issue is the walked ids in order, each once, followed by the repeated   *)
(* id (for A->B->A the path is 'A -> B -> A').                             *)
(***************************************************************************)
C23_CircularPathEndsWithRepeatedId ==
    (FlowValidated /\ steps # <<>>) =>
        \A k \in IssuesWith(ret, CircularMsg) :
            LET path == ret[k].path
                n == Len(path) - 1
            IN /\ n >= 1
               /\ FirstRevisit(steps, ret[k].path_name, n)
               /\ path = Walked(steps, ret[k].path_name, n)
               /\ NoRepeat(SubSeq(path, 1, n))
               /\ \E i \in 1..n : path[i] = path[n + 1]

\* A success -> B, B success -> A: the printed path is A -> B -> A
C23_Witness ==
    /\ FlowValidated
    /\ Len(steps) = 2
    /\ steps[1].next_step_success = steps[2].step_id
    /\ steps[2].next_step_success = steps[1].step_id
    /\ steps[1].step_id # steps[2].step_id
    /\ \E k \in IssuesWith(ret, CircularMsg) :
          /\ ret[k].path_name = "success"
          /\ ret[k].path = <<steps[1].step_id, steps[2].step_id, steps[1].step_id>>

(***************************************************************************)
(* C24: ProcessValidator.validate_process_flow never raises: for every     *)
(* step list and start_step_id it returns an (is_valid, errors) pair,      *)
(* including when a step reachable from the start step has a               *)
(* next_step_success or next_step_failure that is not 'end' and is not the *)
(* id of any step in the list.                                             *)
(***************************************************************************)
ValidatorCalled == call.op = "ProcessValidator.validate_process_flow"

C24_ValidatorNeverRaises ==
    ValidatorCalled =>
        /\ ~ret.raised
        /\ ret.is_valid = (ret.errors = <<>>)

(***************************************************************************)
(* C25: the standalone load_from_csv accepts forward references: when a    *)
(* row's next step names a step that is defined in a later row of the same *)
(* file (a file whose rows have non-blank, pairwise distinct step names),  *)
(* loading succeeds without error and both the referencing step and the    *)
(* later-defined step are in steps.                                        *)
(***************************************************************************)
CsvLoaded == call.op = "load_from_csv"

DataRows(rows) == {i \in 1..Len(rows) : ~rows[i].empty}

CleanFile(rows) ==
    /\ \A i \in DataRows(rows) : ~IsBlankString(rows[i].step_id)
    /\ \A i, j \in DataRows(rows) :
          i # j => Strip(rows[i].step_id) # Strip(rows[j].step_id)

ForwardReference(rows, i, j) ==
    /\ i \in DataRows(rows) /\ j \in DataRows(rows) /\ i < j
    /\ Strip(rows[j].step_id) \in {rows[i].next_step_success, rows[i].next_step_failure}

C25_ForwardReferencesLoad ==
    (CsvLoaded /\ CleanFile(call.rows)) =>
        \A i, j \in 1..Len(call.rows) :
            ForwardReference(call.rows, i, j) =>
                /\ ~ret.raised
                /\ HasStepId(steps, Strip(call.rows[i].step_id))
                /\ HasStepId(steps, Strip(call.rows[j].step_id))

(***************************************************************************)
(* C26: after any sequence of add_step calls on a builder that starts with *)
(* no steps, find_missing_steps() returns []: every accepted step's        *)
(* next_step_success and next_step_failure is 'end' (any case) or the      *)
(* step_id of a step that was already in the collection when it was added, *)
(* so the auto-generation loop inside add_step adds no step.               *)
(***************************************************************************)
AddStepAccepted ==
    AddStepCalled /\ ~FailsPerStepValidation(call.before.steps, call.step)

C26_NoMissingStepsFromEmptyBuilder ==
    /\ find_missing_steps(steps) = <<>>
    /\ MissingFields(steps) = {}
    /\ AddStepCalled =>
          /\ steps \in {call.before.steps, Append(call.before.steps, call.step)}
          /\ ~hung
          /\ steps # call.before.steps =>
                \A kind \in PathKinds :
                    \/ IsEndSentinel(Edge(call.step, kind))
                    \/ HasStepId(call.before.steps, Edge(call.step, kind))

\* an accepted second step whose success edge names the first step
C26_Witness ==
    /\ AddStepAccepted
    /\ Len(call.before.steps) = 1
    /\ call.step.next_step_success = call.before.steps[1].step_id
    /\ IsEndSentinel(call.step.next_step_failure)
    /\ call.step.step_id # call.before.steps[1].step_id
    /\ Len(steps) = 2
    /\ find_missing_steps(steps) = <<>>

(***************************************************************************)
(* C27: for any sequence of add_step calls with pairwise distinct step ids *)
(* on an initially empty builder, every accepted call after the first      *)
(* returns a list containing a 'Disconnected step names found' issue that  *)
(* names the step just added; only the first accepted step can make        *)
(* add_step return the empty list.                                         *)
(***************************************************************************)
DistinctStepIds(ss) == \A i, j \in 1..Len(ss) : i # j => ss[i].step_id # ss[j].step_id

C27_LaterStepsAreReportedDisconnected ==
    (AddStepCalled /\ DistinctStepIds(steps)) =>
        /\ (AddStepAccepted /\ call.before.steps # <<>>) =>
              \E k \in IssuesWith(ret, DisconnectedMsg) : call.step.step_id \in ret[k].names
        /\ (ret = <<>>) => (call.before.steps = <<>> /\ steps = <<call.step>>)

\* a second step that points back to the first and ends: reported all the same
C27_Witness ==
    /\ AddStepAccepted
    /\ DistinctStepIds(steps)
    /\ Len(call.before.steps) = 1
    /\ Len(steps) = 2
    /\ call.step.next_step_success = steps[1].step_id
    /\ IsEndSentinel(call.step.next_step_failure)
    /\ IsEndSentinel(steps[1].next_step_success)
    /\ \E k \in IssuesWith(ret, DisconnectedMsg) : ret[k].names = {call.step.step_id}

(***************************************************************************)
(* C28: soundness of a clean result: if validate_process_flow returns the  *)
(* empty list for a non-empty collection with unique step ids, then        *)
(* following next_step_success from the first-added step reaches 'end',    *)
(* following next_step_failure from the first-added step reaches 'end',    *)
(* and every step other than the first is the next_step_success or         *)
(* next_step_failure of some step.                                         *)
(***************************************************************************)
\* the value met after n edges of one kind from the first step: a step's
\* edge value, then the edge value of the step that value names, and so on;
\* None once an 'end' or an id that names no step has been met
RECURSIVE Follow(_, _, _)
Follow(ss, kind, n) ==
    IF n = 1 THEN Edge(ss[1], kind)
    ELSE LET prev == Follow(ss, kind, n - 1) IN
         IF prev = None \/ IsEndSentinel(prev) \/ ~HasStepId(ss, prev) THEN None
         ELSE Edge(StepNamed(ss, prev), kind)

FollowingReachesEnd(ss, kind) ==
    \E n \in 1..Len(ss) : Follow(ss, kind, n) # None /\ IsEndSentinel(Follow(ss, kind, n))

IsNextOfSomeStep(ss, id) ==
    \E i \in 1..Len(ss) : \E kind \in PathKinds : Edge(ss[i], kind) = id

C28_CleanResultIsSound ==
    (FlowValidated /\ steps # <<>> /\ DistinctStepIds(steps) /\ ret = <<>>) =>
        /\ FollowingReachesEnd(steps, "success")
        /\ FollowingReachesEnd(steps, "failure")
        /\ \A i \in 2..Len(steps) : IsNextOfSomeStep(steps, steps[i].step_id)

(***************************************************************************)
(* C29: after any sequence of add_step and add_note calls on a builder     *)
(* that starts with no steps and no notes, validate_notes(notes, steps)    *)
(* returns []: note ids are pairwise distinct and every note's             *)
(* related_step_id is the step_id of a step in the collection.             *)
(***************************************************************************)
C29_NotesOfBuilderAreValid ==
    /\ validate_notes(notes, steps) = <<>>
    /\ \A i, j \in 1..Len(notes) : i # j => notes[i].note_id # notes[j].note_id
    /\ \A i \in 1..Len(notes) : HasStepId(steps, notes[i].related_step_id)

\* a second note has just been accepted, for another step than the first
C29_Witness ==
    /\ AddNoteCalled
    /\ ret = <<>>
    /\ Len(notes) = 2
    /\ Len(call.before.notes) = 1
    /\ notes[1].related_step_id # notes[2].related_step_id
    /\ validate_notes(notes, steps) = <<>>

(***************************************************************************)
(* C30: when add_step(interactive=False) runs its auto-generation loop on  *)
(* a collection that already contains dangling references, it adds exactly *)
(* one step per distinct missing id, also when the same missing id is      *)
(* referenced by both fields of one step or by several steps.              *)
(***************************************************************************)
MissingIds(ss) == {Edge(ss[f[1]], FieldKinds[f[2]]) : f \in MissingFields(ss)}

\* the steps that follow the given one in the collection after the call
GeneratedSteps ==
    SubSeq(steps, Len(call.before.steps) + 2, Len(steps))

C30_OneGeneratedStepPerMissingId ==
    (AddStepAccepted /\ ~hung) =>
        /\ IsPrefix(Append(call.before.steps, call.step), steps)
        /\ \A id \in MissingIds(Append(call.before.steps, call.step)) :
              Cardinality({i \in 1..Len(GeneratedSteps) : GeneratedSteps[i].step_id = id}) = 1
        /\ Len(GeneratedSteps) = Cardinality(MissingIds(Append(call.before.steps, call.step)))

====
